---- MODULE Spec2Model ----
(***************************************************************************)
(* Model of the asset cache of package mak (transplacer.go): AssetCache,   *)
(* its Gen/Get/Del/Handler/SetInterval/Close operations, the background    *)
(* sweeper goroutine started by MakeAssetCache, and Asset.Serve.           *)
(*                                                                         *)
(* Strings are tuples of one-character strings, so that path.Clean,        *)
(* filepath.Ext, strings.Contains and the case-insensitive extension       *)
(* lookup are computed on characters as the Go code computes them.         *)
(***************************************************************************)
EXTENDS Integers, Sequences, FiniteSets, TLC

\* ------------------------------------------------------------------------
\* Bounds of the model
\* ------------------------------------------------------------------------

\* the clock runs from 0 to MaxTime
MaxTime == 2

\* number of tickers ever created (construction plus SetInterval calls)
MaxTickers == 2

\* number of Asset objects the stepwise Gen allocates
MaxAssets == 3

\* ------------------------------------------------------------------------
\* Strings
\* ------------------------------------------------------------------------

Slash == "/"

Dot == "."

\* the Go nil []byte, distinct from the empty byte slice and from every
\* slice of bytes
NilBytes == <<-1>>

\* the Go nil *Asset
NilAsset == [nil |-> TRUE]

\* the Go empty string, for strings that are compared with tuples
Empty == <<>>

\* len(b) of a byte slice
BytesLen(b) == IF b = NilBytes THEN 0 ELSE Len(b)

ToLower(c) ==
  CASE c = "J" -> "j"
    [] c = "S" -> "s"
    [] c = "G" -> "g"
    [] c = "Z" -> "z"
    [] c = "I" -> "i"
    [] c = "P" -> "p"
    [] OTHER -> c

LowerStr(s) == [i \in 1..Len(s) |-> ToLower(s[i])]

\* s and t are equal when letter case is ignored
EqualFold(s, t) ==
  /\ Len(s) = Len(t)
  /\ \A i \in 1..Len(s) : ToLower(s[i]) = ToLower(t[i])

\* strings.Contains(s, sub)
StringsContains(s, sub) ==
  \E i \in 1..(Len(s) + 1) :
    /\ i + Len(sub) - 1 =< Len(s)
    /\ SubSeq(s, i, i + Len(sub) - 1) = sub

\* the elements of s between slashes, empty elements included
RECURSIVE SplitSlash(_)
SplitSlash(s) ==
  IF \A i \in 1..Len(s) : s[i] # Slash
  THEN <<s>>
  ELSE LET i == CHOOSE k \in 1..Len(s) :
                  s[k] = Slash /\ \A j \in 1..(k-1) : s[j] # Slash
       IN <<SubSeq(s, 1, i - 1)>> \o SplitSlash(SubSeq(s, i + 1, Len(s)))

RECURSIVE JoinSlash(_)
JoinSlash(segs) ==
  IF Len(segs) = 0 THEN <<>>
  ELSE IF Len(segs) = 1 THEN segs[1]
  ELSE segs[1] \o <<Slash>> \o JoinSlash(Tail(segs))

\* the element stack of path.Clean: empty and "." elements are dropped,
\* ".." removes the element before it, cannot climb above a rooted path,
\* and is kept at the front of a path that is not rooted
RECURSIVE CleanSegs(_, _, _)
CleanSegs(segs, out, rooted) ==
  IF Len(segs) = 0 THEN out
  ELSE LET e == segs[1]
           rest == Tail(segs)
       IN IF e = <<>> \/ e = <<Dot>>
          THEN CleanSegs(rest, out, rooted)
          ELSE IF e = <<Dot, Dot>>
          THEN IF Len(out) > 0 /\ out[Len(out)] # <<Dot, Dot>>
               THEN CleanSegs(rest, SubSeq(out, 1, Len(out) - 1), rooted)
               ELSE IF rooted
               THEN CleanSegs(rest, out, rooted)
               ELSE CleanSegs(rest, Append(out, e), rooted)
          ELSE CleanSegs(rest, Append(out, e), rooted)

\* path.Clean(p)
Clean(p) ==
  IF Len(p) = 0 THEN <<Dot>>
  ELSE LET rooted == p[1] = Slash
           body == JoinSlash(CleanSegs(SplitSlash(p), <<>>, rooted))
       IN IF rooted THEN <<Slash>> \o body
          ELSE IF Len(body) = 0 THEN <<Dot>> ELSE body

\* filepath.Ext(p): the suffix from the last dot of the last element of p
Ext(p) ==
  LET dots == {i \in 1..Len(p) :
                 p[i] = Dot /\ \A j \in i..Len(p) : p[j] # Slash}
  IN IF dots = {} THEN <<>>
     ELSE LET i == CHOOSE k \in dots : \A j \in dots : j =< k
          IN SubSeq(p, i, Len(p))

\* ------------------------------------------------------------------------
\* Program constants and the inputs of the model
\* ------------------------------------------------------------------------

\* var Compressable
Compressable ==
  << <<>>,
     <<".", "t", "x", "t">>,
     <<".", "h", "t", "m">>,
     <<".", "h", "t", "m", "l">>,
     <<".", "c", "s", "s">>,
     <<".", "t", "o", "m", "l">>,
     <<".", "p", "h", "p">>,
     <<".", "j", "s">>,
     <<".", "j", "s", "o", "n">>,
     <<".", "m", "d">>,
     <<".", "m", "d", "o", "w", "n">>,
     <<".", "x", "m", "l">>,
     <<".", "s", "v", "g">>,
     <<".", "g", "o">>,
     <<".", "c", "g", "i">>,
     <<".", "p", "y">>,
     <<".", "p", "l">>,
     <<".", "a", "s", "p", "x">>,
     <<".", "a", "s", "p">> >>

\* the literal "/index.html" appended to a directory name by Gen
IndexSuffix == <<"/", "i", "n", "d", "e", "x", ".", "h", "t", "m", "l">>

\* the literal "gzip" looked for in accept-encoding by Serve
Gzip == <<"g", "z", "i", "p">>

\* the values filepath.Abs(dir) takes in the model: the filesystem root and
\* a directory below it
Dirs == { <<"/">>, <<"/", "s", "r", "v">> }

\* the names (request paths) passed to Gen, Get, Del and Handler
NameRoot == <<"/">>

NameIndex == <<"/", "i", "n", "d", "e", "x", ".", "h", "t", "m", "l">>

NameJS == <<"/", "X", ".", "J", "S">>

NamePng == <<"/", "p", ".", "p", "n", "g">>

NameNotes == <<"/", "n", "o", "t", "e", "s">>

NameMissing == <<"/", "n", "o", "p", "e">>

Names == {NameRoot, NameIndex, NameJS, NamePng, NameNotes, NameMissing}

\* a directory whose index.html is a directory that holds an index.html
NameDocs == <<"/", "d", "o", "c", "s">>

\* the accept-encoding request header values
AcceptEncodings ==
  { <<>>,
    <<"g", "z", "i", "p">>,
    <<"b", "r", ",", " ", "g", "z", "i", "p">>,
    <<"G", "Z", "I", "P">> }

\* the values of Expire (the TTL) a cache is constructed with
Expires == {2}

\* the sweep intervals passed to MakeAssetCache
FirstIntervals == {1}

\* the sweep intervals passed to SetInterval
Intervals == {1, 2}

\* the I/O step of Gen that fails, if any
Faults == {"none", "open", "read", "gzip", "hashgz", "hash"}

\* the I/O failures tried below Get and Handler
CallFaults == {"none", "read"}

\* file contents (byte slices)
ContentA == <<104, 105>>

ContentB == <<>>

ContentC == <<1, 2, 3>>

\* the files below directory d at time 0: d itself, an index.html, a file
\* with an upper-case compressible extension, a png, a file with no
\* extension, and the directory docs with the directory docs/index.html and
\* the file docs/index.html/index.html
FilesUnder(d) ==
  LET base == IF d = <<Slash>> THEN <<>> ELSE d
      file(c) == [kind |-> "file", content |-> c, mtime |-> 0]
      dir == [kind |-> "dir", content |-> <<>>, mtime |-> 0]
  IN (d :> dir)
     @@ ((base \o NameIndex) :> file(ContentA))
     @@ ((base \o NameJS) :> file(ContentC))
     @@ ((base \o NamePng) :> file(ContentC))
     @@ ((base \o NameNotes) :> file(ContentB))
     @@ ((base \o NameDocs) :> dir)
     @@ ((base \o NameDocs \o IndexSuffix) :> dir)
     @@ ((base \o NameDocs \o IndexSuffix \o IndexSuffix) :> file(ContentA))

\* ------------------------------------------------------------------------
\* Helpers called by Gen
\* ------------------------------------------------------------------------

\* stringsContainsCI(list, s): s equals an element of list, letter case
\* ignored
stringsContainsCI(list, s) ==
  \E i \in 1..Len(list) : EqualFold(list[i], s)

\* mime.TypeByExtension(ext)
TypeByExtension(ext) ==
  LET e == LowerStr(ext)
  IN CASE e = <<".", "h", "t", "m", "l">> -> "text/html; charset=utf-8"
       [] e = <<".", "j", "s">> -> "application/javascript"
       [] e = <<".", "p", "n", "g">> -> "image/png"
       [] OTHER -> ""

\* gzipBytes(content, 9): the gzip magic bytes, the payload and a trailer
\* with the payload's length; never empty and never the payload itself
gzipBytes(content) == <<31, 139>> \o content \o <<Len(content)>>

\* h.Sum(nil) of a sha256 hash fed with bytes b: an injective digest
Sha256(b) == [sha256 |-> b]

\* fmt.Sprintf(`"%x"`, et)
QuotedHex(et) == <<"\"", et, "\"">>

\* ------------------------------------------------------------------------
\* State
\* ------------------------------------------------------------------------

VARIABLES
  Dir,       \* AssetCache.Dir
  Expire,    \* AssetCache.Expire
  Cache,     \* AssetCache.Cache: the map from key to *Asset
  Ticker,    \* AssetCache.Ticker: index into tickers
  tickers,   \* every time.Ticker created so far
  sweeper,   \* the goroutine started by MakeAssetCache
  fs,        \* the filesystem: path -> [kind, content, mtime]
  now,       \* the clock
  ret,       \* what the call of Gen, Get, Del or Handler just made did
  resp,      \* what the call of Serve just made did to its Ctx
  heap,      \* the Asset objects allocated by the stepwise Gen, by address
  gen,       \* the stepwise call of Gen in flight and the Asset it builds
  held       \* the *Asset a caller holds, and the key it got it under

vars == <<Dir, Expire, Cache, Ticker, tickers, sweeper, fs, now, ret, resp,
          heap, gen, held>>

\* the state of the stepwise Gen
hvars == <<heap, gen, held>>

\* the empty hashmap
EmptyMap == <<>>

Keys(m) == DOMAIN m

\* HashMap.Set(k, v)
MapSet(m, k, v) == [x \in (DOMAIN m) \cup {k} |-> IF x = k THEN v ELSE m[x]]

\* HashMap.Del(k)
MapDel(m, k) == [x \in (DOMAIN m) \ {k} |-> m[x]]

\* time.NewTicker(interval): a running ticker with an empty channel
NewTicker(interval) ==
  [active |-> TRUE, C |-> <<>>, next |-> now + interval, interval |-> interval]

\* Ticker.Stop(): no more ticks are sent; the channel is neither closed
\* nor drained
StopTicker(t) == [t EXCEPT !.active = FALSE]

NoRet ==
  [op |-> "none", name |-> <<>>, key |-> <<>>, hit |-> FALSE,
   asset |-> NilAsset, ok |-> FALSE, err |-> "nil", panic |-> FALSE,
   stats |-> <<>>, put |-> FALSE, envoy |-> FALSE, raw |-> NilAsset,
   fault |-> "none", closed |-> {}]

\* no stepwise call of Gen is in flight
NoGen == [pc |-> "idle", name |-> <<>>, asset |-> 0]

\* the caller holds no *Asset
NoHeld == [key |-> <<>>, asset |-> 0]

NoResp ==
  [served |-> NilAsset, acceptEncoding |-> <<>>, contentType |-> "",
   callerLastModified |-> Empty, lastModified |-> Empty, etag |-> Empty,
   body |-> NilBytes, writes |-> 0, ContentLength |-> 0, before |-> 0,
   n |-> 0, err |-> "nil"]

\* ------------------------------------------------------------------------
\* AssetCache.Gen
\* ------------------------------------------------------------------------

GenFail(stats, err) ==
  [asset |-> NilAsset, err |-> err, cache |-> Cache, stats |-> stats,
   put |-> FALSE, key |-> <<>>]

\* BuildAsset with the compressed variant built for every file
BuildAssetAlwaysCompressed(name, f) ==
  LET ext == Ext(name)
      compressed == gzipBytes(f.content)
  IN [ContentType       |-> TypeByExtension(ext),
      Content           |-> f.content,
      Compressed        |-> stringsContainsCI(Compressable, ext),
      ModTime           |-> f.mtime,
      ContentCompressed |-> compressed,
      EtagCompressed    |-> QuotedHex(Sha256(compressed)),
      Etag              |-> QuotedHex(Sha256(f.content)),
      Loaded            |-> 0]

\* the Asset built from file f named name, before Loaded is stamped
BuildAsset(name, f) ==
  LET ext == Ext(name)
      Compressed == stringsContainsCI(Compressable, ext)
      compressed == gzipBytes(f.content)
  IN [ContentType       |-> TypeByExtension(ext),
      Content           |-> f.content,
      Compressed        |-> Compressed,
      ModTime           |-> f.mtime,
      ContentCompressed |-> IF Compressed THEN compressed ELSE NilBytes,
      EtagCompressed    |-> IF Compressed
                            THEN QuotedHex(Sha256(compressed)) ELSE Empty,
      Etag              |-> QuotedHex(Sha256(f.content)),
      Loaded            |-> 0]

\* GenFile with Cache.Set called before the error of hashing the file is tested
GenFilePutBeforeHash(name, fault) ==
  LET built == BuildAsset(name, fs[name])
      asset == [built EXCEPT !.Loaded = now]
  IN IF fault = "open" THEN GenFail(<<name>>, "OpenError")
     ELSE IF fault = "read" THEN GenFail(<<name>>, "ReadError")
     ELSE IF built.Compressed /\ fault = "gzip"
     THEN GenFail(<<name>>, "CompressionError")
     ELSE IF built.Compressed /\ fault = "hashgz"
     THEN GenFail(<<name>>, "HashError")
     ELSE IF fault = "hash"
     THEN [GenFail(<<name>>, "HashError") EXCEPT
             !.cache = MapSet(Cache, name, asset)]
     ELSE [asset |-> asset, err |-> "nil",
           cache |-> MapSet(Cache, name, asset),
           stats |-> <<name>>, put |-> TRUE, key |-> name]

\* Gen from os.Open on, for the file called name: the asset and error
\* returned, the map after the call, whether Cache.Set was called and with
\* which key; fault names the I/O step that fails
GenFile(name, fault) ==
  LET built == BuildAsset(name, fs[name])
      asset == [built EXCEPT !.Loaded = now]
  IN IF fault = "open" THEN GenFail(<<name>>, "OpenError")
     ELSE IF fault = "read" THEN GenFail(<<name>>, "ReadError")
     ELSE IF built.Compressed /\ fault = "gzip"
     THEN GenFail(<<name>>, "CompressionError")
     ELSE IF built.Compressed /\ fault = "hashgz"
     THEN GenFail(<<name>>, "HashError")
     ELSE IF fault = "hash"
     THEN GenFail(<<name>>, "HashError")
     ELSE [asset |-> asset, err |-> "nil",
           cache |-> MapSet(Cache, name, asset),
           stats |-> <<name>>, put |-> TRUE, key |-> name]

\* Gen(name): os.Stat, the call of Gen on the index file of a directory,
\* then the file; stats lists the paths passed to os.Stat
RECURSIVE Gen(_, _)

\* Gen with the asset of a directory's index file stored under the name of
\* the directory
GenKeyedByDirectory(name0, fault) ==
  LET name == Clean(Dir \o name0)
  IN IF name \notin DOMAIN fs
     THEN GenFail(<<name>>, "NotFound")
     ELSE IF fs[name].kind = "dir"
     THEN LET r == Gen(name \o IndexSuffix, fault)
          IN [r EXCEPT !.stats = <<name>> \o r.stats,
                       !.cache = IF r.put THEN MapSet(Cache, name, r.asset)
                                 ELSE Cache]
     ELSE GenFile(name, fault)

Gen(name0, fault) ==
  LET name == Clean(Dir \o name0)
  IN IF name \notin DOMAIN fs
     THEN GenFail(<<name>>, "NotFound")
     ELSE IF fs[name].kind = "dir"
     THEN LET r == Gen(name \o IndexSuffix, fault)
          IN [r EXCEPT !.stats = <<name>> \o r.stats]
     ELSE GenFile(name, fault)

\* a caller invokes a.Gen(name)
GenOp(name, fault) ==
  \E r \in {Gen(name, fault)} :
     /\ Cache' = r.cache
     /\ ret' = [NoRet EXCEPT !.op = "Gen", !.name = name, !.key = r.key,
                             !.fault = fault,
                             !.asset = r.asset, !.ok = (r.err = "nil"),
                             !.err = r.err, !.stats = r.stats,
                             !.put = r.put]
     /\ resp' = NoResp
     /\ UNCHANGED <<hvars, Dir, Expire, Ticker, tickers, sweeper, fs, now>>

\* ------------------------------------------------------------------------
\* AssetCache.Get and AssetCache.Del
\* ------------------------------------------------------------------------

\* Get(name): on a key that is present Gen is called with the key as its
\* name; on a key that is absent the type assertion raw.(*Asset) on the nil
\* interface panics
Get(name0, fault) ==
  LET name == Clean(Dir \o name0)
      ok == name \in Keys(Cache)
  IN IF ok
     THEN LET r == Gen(name, fault)
          IN [key |-> name, hit |-> TRUE, raw |-> Cache[name],
              fault |-> fault, asset |-> r.asset,
              ok |-> (r.err = "nil"), err |-> r.err, panic |-> FALSE,
              cache |-> r.cache, stats |-> r.stats, put |-> r.put]
     ELSE [key |-> name, hit |-> FALSE, raw |-> NilAsset, fault |-> fault,
           asset |-> NilAsset, ok |-> FALSE,
           err |-> "nil", panic |-> TRUE, cache |-> Cache,
           stats |-> <<>>, put |-> FALSE]

RetOf(op, name, g) ==
  [op |-> op, name |-> name, key |-> g.key, hit |-> g.hit,
   asset |-> g.asset, ok |-> g.ok, err |-> g.err, panic |-> g.panic,
   stats |-> g.stats, put |-> g.put, envoy |-> FALSE, raw |-> g.raw,
   fault |-> g.fault, closed |-> {}]

\* a caller invokes a.Get(name)
GetOp(name, fault) ==
  \E g \in {Get(name, fault)} :
     /\ Cache' = g.cache
     /\ ret' = RetOf("Get", name, g)
     /\ resp' = NoResp
     /\ UNCHANGED <<hvars, Dir, Expire, Ticker, tickers, sweeper, fs, now>>

\* a caller invokes a.Del(name)
DelOp(name) ==
  LET key == Clean(Dir \o name)
  IN /\ Cache' = MapDel(Cache, key)
     /\ ret' = [NoRet EXCEPT !.op = "Del", !.name = name, !.key = key]
     /\ resp' = NoResp
     /\ UNCHANGED <<hvars, Dir, Expire, Ticker, tickers, sweeper, fs, now>>

\* ------------------------------------------------------------------------
\* Asset.Serve
\* ------------------------------------------------------------------------

\* as.ModTime.UTC().Format(http.TimeFormat)
HTTPDate(t) == <<"http-date", t>>

\* the Ctx handed to Serve: the request's accept-encoding, the response's
\* last-modified header as set by the caller (Empty when unset), the
\* ContentLength counted so far, and whether the body write will succeed
Ctxs ==
  [acceptEncoding : AcceptEncodings,
   lastModified   : {Empty, <<"Mon, 02 Jan 2006 15:04:05 GMT">>},
   ContentLength  : {7},
   writeOK        : BOOLEAN]

\* the Ctx handed to Serve by the holder of an *Asset
HeapCtxs == {c \in Ctxs : c.writeOK /\ c.lastModified = Empty}

\* c.Header("accept-encoding"): the value of the request header
CtxHeader(c) == c.acceptEncoding

\* c.GetHeader("last-modified"): the value of the response header
CtxGetHeader(c) == c.lastModified

\* c.Write(body): the number of bytes written and the error; a write that
\* fails has written the first byte of a body of two bytes or more
CtxWrite(c, body) ==
  IF c.writeOK THEN [n |-> BytesLen(body), err |-> "nil"]
  ELSE [n |-> IF BytesLen(body) > 1 THEN 1 ELSE 0, err |-> "WriteError"]

\* the last-modified header set whatever the caller has set
LastModifiedAlwaysSet(as, c) == HTTPDate(as.ModTime)

\* the last-modified header of the response after lines 219-221
LastModified(as, c) ==
  IF CtxGetHeader(c) = Empty THEN HTTPDate(as.ModTime) ELSE c.lastModified

\* c.ContentLength with the bytes of a failed write counted as well
AddContentLengthAlways(c, w) == c.ContentLength + w.n

\* c.ContentLength after lines 233-235, w being the result of c.Write
AddContentLength(c, w) ==
  IF w.err = "nil" THEN c.ContentLength + w.n ELSE c.ContentLength

\* Serve with the request's accept-encoding ignored
ServeIgnoringAcceptEncoding(as, c) ==
  LET gz == as.Compressed
      body == IF gz THEN as.ContentCompressed ELSE as.Content
      w == CtxWrite(c, body)
  IN [served         |-> as,
      acceptEncoding |-> c.acceptEncoding,
      contentType    |-> as.ContentType,
      callerLastModified |-> c.lastModified,
      lastModified   |-> LastModified(as, c),
      etag           |-> IF gz THEN as.EtagCompressed ELSE as.Etag,
      body           |-> body,
      writes         |-> 1,
      before         |-> c.ContentLength,
      n              |-> w.n,
      ContentLength  |-> AddContentLength(c, w),
      err            |-> w.err]

\* as.Serve(c): the headers set, the bytes handed to c.Write, the
\* ContentLength afterwards and the error returned
Serve(as, c) ==
  LET gz == as.Compressed /\ StringsContains(CtxHeader(c), Gzip)
      body == IF gz THEN as.ContentCompressed ELSE as.Content
      w == CtxWrite(c, body)
  IN [served         |-> as,
      acceptEncoding |-> c.acceptEncoding,
      contentType    |-> as.ContentType,
      callerLastModified |-> c.lastModified,
      lastModified   |-> LastModified(as, c),
      etag           |-> IF gz THEN as.EtagCompressed ELSE as.Etag,
      body           |-> body,
      writes         |-> 1,
      before         |-> c.ContentLength,
      n              |-> w.n,
      ContentLength  |-> AddContentLength(c, w),
      err            |-> w.err]

\* a caller serves an asset it got from Gen and that is still in the map
ServeOp(key, c) ==
  /\ key \in Keys(Cache)
  /\ resp' = Serve(Cache[key], c)
  /\ ret' = NoRet
  /\ UNCHANGED <<hvars, Dir, Expire, Cache, Ticker, tickers, sweeper, fs, now>>

\* ------------------------------------------------------------------------
\* AssetCache.Handler
\* ------------------------------------------------------------------------

\* the router invokes a.Handler(c) for a request of URL path urlpath
HandlerOp(urlpath, fault) ==
  \E g \in {Get(Clean(Dir \o urlpath), fault)} :
     /\ Cache' = g.cache
     /\ ret' = [RetOf("Handler", urlpath, g) EXCEPT
                  !.envoy = (~g.panic /\ ~g.ok)]
     /\ IF g.ok
        THEN \E c \in Ctxs : resp' = Serve(g.asset, c)
        ELSE resp' = NoResp
     /\ UNCHANGED <<hvars, Dir, Expire, Ticker, tickers, sweeper, fs, now>>

\* ------------------------------------------------------------------------
\* AssetCache.SetInterval and AssetCache.Close
\* ------------------------------------------------------------------------

\* a caller invokes a.SetInterval(interval) after construction
SetInterval(interval) ==
  /\ Len(tickers) < MaxTickers
  /\ tickers' = Append([tickers EXCEPT ![Ticker] = StopTicker(@)],
                       NewTicker(interval))
  /\ Ticker' = Len(tickers) + 1
  /\ ret' = [NoRet EXCEPT !.op = "SetInterval"]
  /\ resp' = NoResp
  /\ UNCHANGED <<hvars, Dir, Expire, Cache, sweeper, fs, now>>

\* a caller invokes a.Close()
Close ==
  /\ Cache' = EmptyMap
  /\ tickers' = [tickers EXCEPT ![Ticker] = StopTicker(@)]
  /\ ret' = [NoRet EXCEPT !.op = "Close", !.closed = Keys(Cache)]
  /\ resp' = NoResp
  /\ UNCHANGED <<hvars, Dir, Expire, Ticker, sweeper, fs, now>>

\* ------------------------------------------------------------------------
\* The clock, the tickers and the sweeper goroutine
\* ------------------------------------------------------------------------

\* the clock advances; the runtime sends the time on the channel of every
\* running ticker whose period has elapsed; the channel holds one value and
\* a tick that finds it full is dropped
Tick(t, time) ==
  IF t.active /\ time >= t.next
  THEN [t EXCEPT !.next = @ + t.interval,
                 !.C = IF @ = <<>> THEN <<time>> ELSE @]
  ELSE t

AdvanceTime ==
  /\ now < MaxTime
  /\ now' = now + 1
  /\ tickers' = [i \in DOMAIN tickers |-> Tick(tickers[i], now + 1)]
  /\ UNCHANGED <<hvars, Dir, Expire, Cache, Ticker, sweeper, fs>>
  /\ ret' = NoRet
  /\ resp' = NoResp

NoSweep == [key |-> <<>>, Loaded |-> 0, deleted |-> FALSE]

\* the goroutine starts: the range expression a.Ticker.C is evaluated once
SweeperStart ==
  /\ sweeper.pc = "start"
  /\ sweeper' = [sweeper EXCEPT !.pc = "recv", !.C = Ticker]
  /\ UNCHANGED <<hvars, Dir, Expire, Cache, Ticker, tickers, fs, now>>
  /\ ret' = NoRet
  /\ resp' = NoResp

\* the goroutine receives a tick and calls a.Cache.Iter()
SweeperRecv ==
  /\ sweeper.pc = "recv"
  /\ tickers[sweeper.C].C # <<>>
  /\ tickers' = [tickers EXCEPT ![sweeper.C].C = <<>>]
  /\ sweeper' = [sweeper EXCEPT
                   !.pc = IF Keys(Cache) = {} THEN "recv" ELSE "scan",
                   !.tick = tickers[sweeper.C].C[1],
                   !.stale = ~tickers[sweeper.C].active,
                   !.snap = Cache,
                   !.last = NoSweep]
  /\ UNCHANGED <<hvars, Dir, Expire, Cache, Ticker, fs, now>>
  /\ ret' = NoRet
  /\ resp' = NoResp

\* the decision of the sweeper for an asset at the time of a tick
SweepDeletes(asset, tick) == asset.Loaded + Expire > tick

\* the goroutine handles one key/value pair of the iteration
SweeperStep(key) ==
  /\ sweeper.pc = "scan"
  /\ key \in Keys(sweeper.snap)
  /\ LET asset == sweeper.snap[key]
         del == SweepDeletes(asset, sweeper.tick)
         rest == MapDel(sweeper.snap, key)
     IN /\ Cache' = IF del THEN MapDel(Cache, key) ELSE Cache
        /\ sweeper' = [sweeper EXCEPT
                         !.pc = IF Keys(rest) = {} THEN "recv" ELSE "scan",
                         !.snap = rest,
                         !.last = [key |-> key, Loaded |-> asset.Loaded,
                                   deleted |-> del]]
  /\ UNCHANGED <<hvars, Dir, Expire, Ticker, tickers, fs, now>>
  /\ ret' = NoRet
  /\ resp' = NoResp

\* ------------------------------------------------------------------------
\* The filesystem
\* ------------------------------------------------------------------------

\* another process rewrites the index file below Dir, once
WriteFile(content) ==
  LET name == Clean(Dir \o NameIndex)
  IN /\ fs[name].content = ContentA
     /\ fs[name].content # content
     /\ fs' = [fs EXCEPT ![name].content = content, ![name].mtime = now]
     /\ UNCHANGED <<hvars, Dir, Expire, Cache, Ticker, tickers, sweeper, now>>
     /\ ret' = NoRet
     /\ resp' = NoResp

\* ------------------------------------------------------------------------
\* AssetCache.Gen step by step, on Asset objects
\*
\* In the actions of this section the map holds *Asset values: addresses
\* of heap.  Gen is cut where it reads the file: ioutil.ReadFile, then
\* io.Copy from the file opened before, then Cache.Set; the steps of other
\* goroutines and of other processes come between.
\* ------------------------------------------------------------------------

\* the names passed to the stepwise Gen
HeapNames == {NameIndex, NamePng}

\* asset := &Asset{...} with the map never consulted: the object stored
\* under the name, if any, is written again
NewAssetInPlace(name) ==
  IF name \in Keys(Cache) THEN Cache[name] ELSE Len(heap) + 1

\* asset := &Asset{...}: the address of a new object
NewAsset(name) == Len(heap) + 1

\* Gen(name) of a file up to the compressed variant: os.Stat, os.Open,
\* ioutil.ReadFile, the Asset literal, gzipBytes and EtagCompressed
HeapGenRead(name0) ==
  LET name == Clean(Dir \o name0)
  IN /\ gen.pc = "idle"
     /\ Len(heap) < MaxAssets
     /\ name \in DOMAIN fs
     /\ fs[name].kind = "file"
     /\ LET a == NewAsset(name)
            asset == [BuildAsset(name, fs[name]) EXCEPT !.Etag = Empty]
        IN /\ heap' = [i \in (DOMAIN heap) \cup {a} |->
                         IF i = a THEN asset ELSE heap[i]]
           /\ gen' = [pc |-> "hash", name |-> name, asset |-> a]
     /\ ret' = NoRet
     /\ resp' = NoResp
     /\ UNCHANGED <<held, Dir, Expire, Cache, Ticker, tickers, sweeper, fs,
                    now>>

\* io.Copy(h, f) and asset.Etag: the digest of what the file opened at
\* line 118 holds now
HeapGenHash ==
  /\ gen.pc = "hash"
  /\ heap' = [heap EXCEPT
                ![gen.asset].Etag = QuotedHex(Sha256(fs[gen.name].content))]
  /\ gen' = [gen EXCEPT !.pc = "put"]
  /\ ret' = NoRet
  /\ resp' = NoResp
  /\ UNCHANGED <<held, Dir, Expire, Cache, Ticker, tickers, sweeper, fs, now>>

\* asset.Loaded = time.Now(); a.Cache.Set(name, asset); return asset
HeapGenPut ==
  /\ gen.pc = "put"
  /\ heap' = [heap EXCEPT ![gen.asset].Loaded = now]
  /\ Cache' = MapSet(Cache, gen.name, gen.asset)
  /\ gen' = NoGen
  /\ ret' = NoRet
  /\ resp' = NoResp
  /\ UNCHANGED <<held, Dir, Expire, Ticker, tickers, sweeper, fs, now>>

\* raw, ok := a.Cache.GetStringKey(key) with ok true: the caller holds the
\* *Asset stored under key
HeapLookup(key) ==
  /\ key \in Keys(Cache)
  /\ held' = [key |-> key, asset |-> Cache[key]]
  /\ ret' = NoRet
  /\ resp' = NoResp
  /\ UNCHANGED <<heap, gen, Dir, Expire, Cache, Ticker, tickers, sweeper, fs,
                 now>>

\* the caller serves the *Asset it holds
HeapServe(c) ==
  /\ held # NoHeld
  /\ resp' = Serve(heap[held.asset], c)
  /\ ret' = NoRet
  /\ UNCHANGED <<hvars, Dir, Expire, Cache, Ticker, tickers, sweeper, fs, now>>

\* the body of the sweeper's loop for one key/value pair of the map, on a
\* tick sent now
HeapSweep(key) ==
  /\ key \in Keys(Cache)
  /\ sweeper.pc = "recv"
  /\ LET asset == heap[Cache[key]]
     IN Cache' = IF SweepDeletes(asset, now) THEN MapDel(Cache, key)
                 ELSE Cache
  /\ ret' = NoRet
  /\ resp' = NoResp
  /\ UNCHANGED <<hvars, Dir, Expire, Ticker, tickers, sweeper, fs, now>>

\* ------------------------------------------------------------------------
\* Specification
\* ------------------------------------------------------------------------

\* the state after MakeAssetCache(dir, expire, interval) has returned
Init ==
  /\ Dir \in Dirs
  /\ Expire \in Expires
  /\ Cache = EmptyMap
  /\ now = 0
  /\ Ticker = 1
  /\ \E interval \in FirstIntervals : tickers = <<NewTicker(interval)>>
  /\ sweeper = [pc |-> "start", C |-> 0, tick |-> 0, stale |-> FALSE,
                snap |-> EmptyMap, last |-> NoSweep]
  /\ fs = FilesUnder(Dir) @@ (<<Slash>> :> [kind |-> "dir", content |-> <<>>,
                                            mtime |-> 0])
  /\ ret = NoRet
  /\ resp = NoResp
  /\ heap = <<>>
  /\ gen = NoGen
  /\ held = NoHeld

\* the calls
Calls ==
  \/ \E name \in Names, fault \in Faults : GenOp(name, fault)
  \/ \E name \in Names, fault \in CallFaults : GetOp(name, fault)
  \/ \E name \in Names : DelOp(name)
  \/ \E key \in Keys(Cache), c \in Ctxs : ServeOp(key, c)
  \/ \E name \in Names, fault \in CallFaults : HandlerOp(name, fault)

\* the steps of the runtime and of the sweeper goroutine
Background ==
  \/ AdvanceTime
  \/ SweeperStart
  \/ SweeperRecv
  \/ \E key \in Keys(sweeper.snap) : SweeperStep(key)

\* the whole program
Next ==
  \/ Calls
  \/ \E interval \in Intervals : SetInterval(interval)
  \/ Close
  \/ Background
  \/ \E content \in {ContentB} : WriteFile(content)

Spec == Init /\ [][Next]_vars

\* The calls on their own.  Only the calls and Close appear in what a call
\* returns: the sweeper changes the map by deleting keys only, which DelOp
\* does as well, and the clock only changes the Loaded stamp.
NextCalls ==
  \/ Calls
  \/ Close

SpecCalls == Init /\ [][NextCalls]_vars

\* the names generated while the sweeper is observed
SweepNames == {NameIndex, NamePng}

\* The sweeper, the tickers and the clock, with Gen filling the map.  Get
\* and Handler change the map through Gen only and Serve does not change it.
NextSweep ==
  \/ \E name \in SweepNames : GenOp(name, "none")
  \/ \E interval \in Intervals : SetInterval(interval)
  \/ Close
  \/ Background

\* a cache constructed on /srv
InitSweep == Init /\ Dir = <<"/", "s", "r", "v">>

SpecSweep == InitSweep /\ [][NextSweep]_vars

\* The stepwise Gen of two files on Asset objects, with the goroutines and
\* processes that run between its steps: a writer of the index file,
\* lookups, Serve, Del, the sweeper and Close.
NextHeap ==
  \/ \E name \in HeapNames : HeapGenRead(name)
  \/ HeapGenHash
  \/ HeapGenPut
  \/ \E key \in Keys(Cache) : HeapLookup(key)
  \/ \E c \in HeapCtxs : HeapServe(c)
  \/ \E key \in Keys(Cache) : HeapSweep(key)
  \/ \E name \in HeapNames : DelOp(name)
  \/ Close
  \/ SweeperStart
  \/ \E content \in {ContentB} : WriteFile(content)

SpecHeap == InitSweep /\ [][NextHeap]_vars

\* the names generated while directories are observed
DirNames == {NameRoot, NameDocs, NameIndex, NameJS, NameMissing}

\* Gen and Del on directories and files.
NextDirs ==
  \/ \E name \in DirNames, fault \in Faults : GenOp(name, fault)
  \/ \E name \in DirNames : DelOp(name)

SpecDirs == Init /\ [][NextDirs]_vars

\* ------------------------------------------------------------------------
\* Properties
\* ------------------------------------------------------------------------

\* C1: a Get that finds its key in the map returns the stored entry and
\* reports success, calls no Gen (no os.Stat is made) and puts nothing in
\* the map.
C1_HitReturnsStored ==
  (ret.op = "Get" /\ ret.hit) =>
    /\ ret.ok
    /\ ret.asset = ret.raw
    /\ ret.stats = <<>>
    /\ ~ret.put

\* C2: a Get that does not find its key in the map does not panic, calls
\* Gen, and returns what Gen returned: an asset exactly when it reports
\* success.
C2_MissGenerates ==
  (ret.op = "Get" /\ ~ret.hit) =>
    /\ ~ret.panic
    /\ ret.stats # <<>>
    /\ ret.ok <=> (ret.asset # NilAsset)

\* C3: a sweep step for an entry loaded at t0, on a tick sent at time
\* tick, deletes the entry exactly when tick - t0 >= Expire.
C3_SweepEvictsExpired ==
  (sweeper.last.key # <<>>) =>
    (sweeper.last.deleted <=> (sweeper.tick - sweeper.last.Loaded >= Expire))

\* the accept-encoding values of the model that contain "gzip"
GzipAccepting ==
  { <<"g", "z", "i", "p">>, <<"b", "r", ",", " ", "g", "z", "i", "p">> }

\* C4: Serve writes the compressed body with EtagCompressed exactly when
\* the entry has a compressed variant and accept-encoding contains "gzip",
\* otherwise the raw body with Etag; the entry it served is still, field by
\* field, an entry of the map.
C4_ServeRepresentation ==
  (resp.served # NilAsset) =>
    LET as == resp.served
        gz == /\ as.ContentCompressed # NilBytes
              /\ resp.acceptEncoding \in GzipAccepting
    IN /\ IF gz
          THEN resp.body = as.ContentCompressed /\ resp.etag = as.EtagCompressed
          ELSE resp.body = as.Content /\ resp.etag = as.Etag
       /\ \E k \in Keys(Cache) : Cache[k] = as

\* a compressible entry was served compressed to a request accepting
\* "br, gzip", and raw bytes and compressed bytes differ
C4_Witness ==
  /\ resp.served # NilAsset
  /\ resp.served.Compressed
  /\ resp.acceptEncoding = <<"b", "r", ",", " ", "g", "z", "i", "p">>
  /\ resp.body = resp.served.ContentCompressed
  /\ resp.body # resp.served.Content

\* the Compressed flag, the compressed bytes and the compressed etag of
\* asset a stored under key k are present together, and exactly when the
\* lower-cased extension of k is an element of Compressable
CompressedTogether(k, a) ==
  /\ a.Compressed <=> (a.ContentCompressed # NilBytes)
  /\ a.Compressed <=> (a.EtagCompressed # Empty)
  /\ a.Compressed <=>
       (\E i \in DOMAIN Compressable : Compressable[i] = LowerStr(Ext(k)))

\* C5: every entry put into the map by Gen has the Compressed flag, the
\* compressed bytes and the compressed etag all present or all absent, and
\* present exactly when the extension of the file, letter case ignored and
\* the empty extension included, is in Compressable.
C5_CompressedTogether ==
  /\ \A k \in Keys(Cache) : CompressedTogether(k, Cache[k])
  /\ ret.put => CompressedTogether(ret.key, ret.asset)

\* the map holds a compressed entry for the file with the upper-case
\* extension .JS, a compressed entry for the file with no extension and an
\* entry with no compressed variant for the png
C5_Witness ==
  /\ \E k \in Keys(Cache) : Ext(k) = <<".", "J", "S">> /\ Cache[k].Compressed
  /\ \E k \in Keys(Cache) : Ext(k) = <<>> /\ Cache[k].Compressed
  /\ \E k \in Keys(Cache) :
       Ext(k) = <<".", "p", "n", "g">> /\ ~Cache[k].Compressed

\* C6: Close leaves the map empty, and a Get that follows Close for a key
\* that Close dropped and whose file exists misses, calls Gen and returns a
\* newly built entry with success.
C6_CloseThenGetRegenerates ==
  [][ /\ (ret'.op = "Close") => (Cache' = EmptyMap)
      /\ ( /\ ret.op = "Close"
           /\ ret'.op = "Get"
           /\ ret'.key \in ret.closed
           /\ ret'.fault = "none" )
         => ( /\ ~ret'.hit
              /\ ~ret'.panic
              /\ ret'.ok
              /\ ret'.put
              /\ ret'.asset # NilAsset ) ]_vars

\* C7: at most one ticker is running, and the sweeper never starts a sweep
\* on a tick of a ticker that was stopped when the tick was received.
C7_OneScheduleNoStaleSweep ==
  /\ Cardinality({i \in DOMAIN tickers : tickers[i].active}) =< 1
  /\ ~sweeper.stale

\* C8: once SetInterval has been called and the ticker it created is
\* running, the sweeper goroutine, once started, receives from the channel
\* of that ticker, so that the ticks of the new schedule reach it.
C8_SweeperFollowsReconfigure ==
  (Len(tickers) > 1 /\ tickers[Ticker].active /\ sweeper.pc # "start") =>
    sweeper.C = Ticker

\* C9: a call of Gen that returns an error, made directly or below Get or
\* Handler, leaves the map as it was and returns the error with no asset.
C9_FailedGenNotCached ==
  [][ (ret'.op \in {"Gen", "Get", "Handler"} /\ ret'.stats # <<>> /\ ~ret'.ok)
      => (Cache' = Cache /\ ret'.err # "nil" /\ ret'.asset = NilAsset
          /\ ~ret'.put) ]_vars

\* Gen has failed on the hash of the index file it reached through the
\* directory
C9_Witness ==
  /\ ret.op = "Gen"
  /\ ret.err = "HashError"
  /\ Len(ret.stats) = 2
  /\ ret.asset = NilAsset

\* path names a directory / a file of the filesystem
IsDir(path) == path \in DOMAIN fs /\ fs[path].kind = "dir"

IsFile(path) == path \in DOMAIN fs /\ fs[path].kind = "file"

\* C10: Gen of a directory below Dir whose index.html exists succeeds and
\* yields the contentType, bytes and etags that Gen of its index.html
\* yields.
C10_DirectoryIndexFallback ==
  ( /\ ret.op = "Gen"
    /\ ret.fault = "none"
    /\ IsDir(Clean(Dir \o ret.name))
    /\ IsFile(Clean(Dir \o ret.name \o IndexSuffix)) )
  => /\ ret.ok
     /\ LET a == ret.asset
            b == Gen(ret.name \o IndexSuffix, "none").asset
        IN /\ a.ContentType = b.ContentType
           /\ a.Content = b.Content
           /\ a.ContentCompressed = b.ContentCompressed
           /\ a.Etag = b.Etag
           /\ a.EtagCompressed = b.EtagCompressed

\* C11: Get, Del and Handler called for request path p address the key
\* Clean(Dir + p), Dir being joined once; the Gen called below Get or
\* Handler stats, and would store under, that same key; and a Get or a
\* Handler that follows a successful Gen of the file p finds its entry.
C11_OneKeyPerPath ==
  [][ /\ (ret'.op \in {"Get", "Del", "Handler"})
           => (ret'.key = Clean(Dir \o ret'.name))
      /\ (ret'.op \in {"Get", "Handler"} /\ ret'.stats # <<>>)
           => (ret'.stats[1] = ret'.key)
      /\ ( /\ ret.op = "Gen"
           /\ ret.ok
           /\ IsFile(Clean(Dir \o ret.name))
           /\ ret'.op \in {"Get", "Handler"}
           /\ ret'.name = ret.name )
         => ret'.hit ]_vars

\* C12: every call of Handler ends in exactly one of two ways: Get has
\* succeeded, the entry it returned is served and ErrNotFound.Envoy is not
\* called; or Get has failed, ErrNotFound.Envoy is called and no body is
\* written.
C12_HandlerDispatch ==
  (ret.op = "Handler") =>
    /\ ~ret.panic
    /\ ret.ok => (resp.served = ret.asset /\ resp.writes = 1 /\ ~ret.envoy)
    /\ ~ret.ok => (ret.envoy /\ resp.writes = 0 /\ resp.served = NilAsset)

\* every field Gen fills in is set in Asset a
Complete(a) ==
  /\ a.Content # NilBytes
  /\ a.Etag # Empty
  /\ a.Compressed =>
       (a.ContentCompressed # NilBytes /\ a.EtagCompressed # Empty)

\* C13: no step writes a field of an Asset other than the one the Gen in
\* flight is still building; the Asset stored under a key and the Asset a
\* caller holds are never the one being built, and have every field set -
\* whether or not the key the caller got its Asset under still maps to it.
C13_SharedNeverWritten ==
  [][ /\ \A a \in DOMAIN heap : (a # gen.asset) => (heap'[a] = heap[a])
      /\ \A k \in Keys(Cache') :
           Cache'[k] # gen'.asset /\ Complete(heap'[Cache'[k]])
      /\ (held' # NoHeld) =>
           (held'.asset # gen'.asset /\ Complete(heap'[held'.asset])) ]_vars

\* a caller holds an Asset read from the index file before the file was
\* rewritten, while the key now maps to another Asset built from the new
\* bytes
C13_Witness ==
  /\ held # NoHeld
  /\ held.key \in Keys(Cache)
  /\ Cache[held.key] # held.asset
  /\ heap[Cache[held.key]].Content # heap[held.asset].Content
  /\ Complete(heap[held.asset])

\* C14: for every Asset stored by the stepwise Gen, Etag is the quoted hex
\* SHA-256 of its Content, and when it has a compressed variant its
\* ContentCompressed is the gzip of its Content and EtagCompressed the
\* quoted hex SHA-256 of its ContentCompressed - also when the file is
\* rewritten while Gen runs.
C14_ValidatorsMatchBytes ==
  \A k \in Keys(Cache) :
    LET a == heap[Cache[k]]
    IN /\ a.Etag = QuotedHex(Sha256(a.Content))
       /\ a.Compressed =>
            /\ a.ContentCompressed = gzipBytes(a.Content)
            /\ a.EtagCompressed = QuotedHex(Sha256(a.ContentCompressed))

\* C15: a call of Gen that succeeds, made directly or below Get or
\* Handler on a key already in the map, has stored the asset it returns
\* under the cleaned name of the file it read, with Loaded stamped with the
\* time of the call; a lookup of that key in the map right after the call
\* yields that asset, whatever the key held before, and the other keys are
\* as they were.
C15_SuccessfulGenStores ==
  [][ (ret'.op \in {"Gen", "Get", "Handler"} /\ ret'.ok) =>
        LET key == ret'.stats[Len(ret'.stats)]
        IN /\ ret'.put
           /\ key = Clean(key)
           /\ IsFile(key)
           /\ ret'.asset.Content = fs[key].content
           /\ ret'.asset.Loaded = now
           /\ Keys(Cache') = Keys(Cache) \cup {key}
           /\ Cache'[key] = ret'.asset
           /\ \A k \in Keys(Cache) \ {key} : Cache'[k] = Cache[k] ]_vars

\* Gen, called below Get for a key that was in the map, has read the index
\* file and stored the asset it returned under that key again
C15_Witness ==
  /\ ret.op = "Get"
  /\ ret.hit
  /\ ret.ok
  /\ ret.put
  /\ ret.raw # NilAsset
  /\ Ext(ret.key) = <<".", "h", "t", "m", "l">>
  /\ Cache[ret.key] = ret.asset

\* C16: a call of Gen makes at most two os.Stat calls, the second one on
\* the index.html of a directory; when that index.html is itself a
\* directory Gen stops there and returns NotFound.
C16_RecursesOnce ==
  (ret.op = "Gen") =>
    /\ Len(ret.stats) =< 2
    /\ (Len(ret.stats) >= 2 /\ IsDir(ret.stats[2])) =>
         (~ret.ok /\ ret.err = "NotFound" /\ ~ret.put)

\* C17: when a step of the sweeper deletes a key, the asset the map held
\* under that key is the asset of the sweeper's snapshot, whose Loaded the
\* sweeper has examined - not a newer asset that Gen has stored under the
\* key since the snapshot was taken.
C17_SweepRemovesExamined ==
  [][ ( /\ sweeper.pc = "scan"
        /\ sweeper' # sweeper
        /\ sweeper'.last.deleted
        /\ sweeper'.last.key \in Keys(Cache) )
      => (Cache[sweeper'.last.key] = sweeper.snap[sweeper'.last.key]) ]_vars

\* Close has returned and SetInterval has not been called since: no ticker
\* is running
Closed == \A i \in DOMAIN tickers : ~tickers[i].active

\* C18: once Close has returned, no step of the sweeper deletes a key of
\* the map, the keys stored after Close included.
C18_NoSweepAfterClose ==
  [][ (Closed /\ sweeper' # sweeper) => (Keys(Cache') = Keys(Cache)) ]_vars

\* C19: Serve leaves a last-modified header the caller has set as it is,
\* sets it to the HTTP date of the entry's ModTime when the caller has set
\* none, and always sets the content type to the entry's ContentType.
C19_LastModifiedFrame ==
  (resp.served # NilAsset) =>
    /\ resp.contentType = resp.served.ContentType
    /\ (resp.callerLastModified # Empty) =>
         (resp.lastModified = resp.callerLastModified)
    /\ (resp.callerLastModified = Empty) =>
         (resp.lastModified = HTTPDate(resp.served.ModTime))

\* Serve has run on a response whose last-modified header the caller had
\* set to a date that is not the entry's
C19_Witness ==
  /\ resp.served # NilAsset
  /\ resp.callerLastModified # Empty
  /\ resp.callerLastModified # HTTPDate(resp.served.ModTime)
  /\ resp.lastModified = resp.callerLastModified
  /\ resp.contentType = "image/png"

\* C20: Serve writes the body once; when the write succeeds with n bytes
\* ContentLength has grown by n and Serve returns nil; when the write
\* fails Serve returns the error of the write, writes no second time and
\* ContentLength is as it was.
C20_WriteAccounting ==
  (resp.served # NilAsset) =>
    /\ resp.writes = 1
    /\ (resp.err = "nil") =>
         /\ resp.n = BytesLen(resp.body)
         /\ resp.ContentLength = resp.before + resp.n
    /\ (resp.err # "nil") =>
         /\ resp.err = "WriteError"
         /\ resp.ContentLength = resp.before

\* a write has failed after one byte of the body was written, and Serve
\* has returned its error
C20_Witness ==
  /\ resp.served # NilAsset
  /\ resp.err = "WriteError"
  /\ resp.n = 1
  /\ resp.ContentLength = resp.before

====
